---- MODULE Spec2Model ----
(***************************************************************************)
(* Model of nestjs-typeorm-validator: the data source registry             *)
(* (src/utils/data-source.util.ts), the query core                         *)
(* (BaseValidator.valueExists) and the ExistsIn / UniqueIn validators.     *)
(*                                                                         *)
(* JavaScript strings are sequences of one-character strings; a message    *)
(* built from a template literal is the concatenation of its literal       *)
(* fragments (kept as single elements) and the characters interpolated     *)
(* into it.                                                                *)
(***************************************************************************)
EXTENDS Integers, Sequences, FiniteSets, TLC

\* ------------------------------------------------------------------ bounds
\* number of successful register / clear calls of a behaviour
MaxOps == 2
\* largest count the store reports for the batch query
MaxCount == 3
\* decorators applied in one run
MaxDecorated == 1

\* ------------------------------------------------------- JavaScript values
Undefined == [t |-> "undefined", s |-> <<>>]
Null == [t |-> "null", s |-> <<>>]
Str(chars) == [t |-> "string", s |-> chars]
Num(digits) == [t |-> "number", s |-> digits]
Arr(elems) == [t |-> "array", s |-> elems]
Cls(name) == [t |-> "function", s |-> name]

WhiteSpace == {" ", "\t"}

RECURSIVE TrimStart(_)
TrimStart(s) ==
  IF s # <<>> /\ Head(s) \in WhiteSpace THEN TrimStart(Tail(s)) ELSE s

RECURSIVE TrimEnd(_)
TrimEnd(s) ==
  IF s # <<>> /\ s[Len(s)] \in WhiteSpace
    THEN TrimEnd(SubSeq(s, 1, Len(s) - 1))
    ELSE s

\* String.prototype.trim
Trim(s) == TrimEnd(TrimStart(s))

\* String(x) for the values of the model
JSString(x) ==
  CASE x.t = "undefined" -> <<"u","n","d","e","f","i","n","e","d">>
    [] x.t = "null" -> <<"n","u","l","l">>
    [] OTHER -> x.s

\* needle occurs in hay as a contiguous run
Contains(hay, needle) ==
  \E i \in 0..(Len(hay) - Len(needle)) :
    SubSeq(hay, i + 1, i + Len(needle)) = needle

True == [t |-> "boolean", s |-> <<"true">>]
False == [t |-> "boolean", s |-> <<"false">>]

\* the values JavaScript coerces to false
Falsy(x) ==
  \/ x.t \in {"undefined", "null"}
  \/ x.t = "string" /\ x.s = <<>>
  \/ x.t = "number" /\ x.s = <<"0">>
  \/ x = False

UpperCase == <<"A","B","C","D","E","F","G","H","I","J","K","L","M",
               "N","O","P","Q","R","S","T","U","V","W","X","Y","Z">>
LowerCase == <<"a","b","c","d","e","f","g","h","i","j","k","l","m",
               "n","o","p","q","r","s","t","u","v","w","x","y","z">>

ToLower(ch) ==
  IF \E i \in 1..26 : UpperCase[i] = ch
    THEN LowerCase[CHOOSE i \in 1..26 : UpperCase[i] = ch]
    ELSE ch

\* (variant: the pattern without the i flag)
TestCaseSensitive(pattern, text) == Contains(text, pattern)

\* RegExp.prototype.test of a literal pattern with the i flag
TestIgnoreCase(pattern, text) ==
  Contains([i \in 1..Len(text) |-> ToLower(text[i])], pattern)

\* String.prototype.split(',')
RECURSIVE Split(_)
Split(s) ==
  IF \A i \in 1..Len(s) : s[i] # ","
    THEN <<s>>
    ELSE LET i == CHOOSE k \in 1..Len(s) :
                    s[k] = "," /\ \A j \in 1..(k - 1) : s[j] # ","
         IN <<SubSeq(s, 1, i - 1)>> \o Split(SubSeq(s, i + 1, Len(s)))

NonEmpty(v) == v # <<>>

\* .split(',').map((v) => v.trim()).filter((v) => v !== '')
SplitValues(s) ==
  LET parts == Split(s)
  IN SelectSeq([i \in 1..Len(parts) |-> Trim(parts[i])], NonEmpty)

\* Array.from(new Set(values))
RECURSIVE Dedupe(_)
Dedupe(values) ==
  IF values = <<>> THEN <<>>
  ELSE LET init == Dedupe(SubSeq(values, 1, Len(values) - 1))
           last == values[Len(values)]
       IN IF \E i \in 1..Len(init) : init[i] = last
            THEN init
            ELSE Append(init, last)

\* JavaScript numbers: a natural number or NaN
Number(n) == [nan |-> FALSE, n |-> n]
NaN == [nan |-> TRUE, n |-> 0]
DigitChars == <<"0","1","2","3","4","5","6","7","8","9">>
IsDigit(ch) == \E d \in 1..10 : DigitChars[d] = ch
DigitValue(ch) == (CHOOSE d \in 1..10 : DigitChars[d] = ch) - 1

RECURSIVE ParseDigits(_)
ParseDigits(s) ==
  IF s = <<>> THEN 0
  ELSE 10 * ParseDigits(SubSeq(s, 1, Len(s) - 1)) + DigitValue(s[Len(s)])

\* Number(x)
ToNumber(x) ==
  CASE x.t = "null" -> Number(0)
    [] x.t \in {"number", "string"} ->
         IF \A i \in 1..Len(Trim(x.s)) : IsDigit(Trim(x.s)[i])
           THEN Number(ParseDigits(Trim(x.s)))
           ELSE NaN
    [] OTHER -> NaN

\* ------------------------------------------------------------------ errors
NoCause == <<>>

ValidatorError(name, message, cause) ==
  [name |-> name, message |-> message, cause |-> cause]

\* a plain Error thrown by the handle or the store
PlainError(message) == ValidatorError("Error", message, NoCause)

DataSourceInvalidError ==
  ValidatorError("DataSourceInvalidError",
                 <<"Invalid DataSource instance provided">>, NoCause)

\* (variant: the message always names the default data source)
NotRegisteredWithoutName(dataSourceName) ==
  ValidatorError("DataSourceNotRegisteredError",
                 <<"DataSource \"">> \o <<"d","e","f","a","u","l","t">>
                   \o <<"\" is not registered. Please call registerDataSourceForValidation() first.">>,
                 NoCause)

DataSourceNotRegisteredError(dataSourceName) ==
  ValidatorError("DataSourceNotRegisteredError",
                 <<"DataSource \"">> \o dataSourceName
                   \o <<"\" is not registered. Please call registerDataSourceForValidation() first.">>,
                 NoCause)

DataSourceInitializationError(dataSourceName) ==
  ValidatorError("DataSourceInitializationError",
                 <<"DataSource \"">> \o dataSourceName
                   \o <<"\" is not initialized. Please ensure it's initialized before use.">>,
                 NoCause)

ValidationConfigurationError(message) ==
  ValidatorError("ValidationConfigurationError", message, NoCause)

\* (variant: the original error is dropped)
ValidationQueryErrorWithoutCause(message, cause) ==
  ValidatorError("ValidationQueryError", message, NoCause)

ValidationQueryError(message, cause) ==
  ValidatorError("ValidationQueryError", message, <<cause>>)

TypeError(message) == ValidatorError("TypeError", message, NoCause)

\* what a throw statement or a rejected promise carries
ThrowError(e) == [isError |-> TRUE, error |-> e, value |-> Undefined]
ThrowValue(v) == [isError |-> FALSE, error |-> PlainError(<<>>), value |-> v]

\* ------------------------------------------------------------ the registry
DEFAULT_DATA_SOURCE_NAME == <<"d","e","f","a","u","l","t">>

\* the handles the caller owns, and the two malformed arguments of the tests
Handles == {"h1", "h2"}
NoHandle == "none"
HandleArgs == Handles \cup {"null", "{}"}

HasGetRepository(h) == h \in Handles

\* the result of normalizeDataSourceName: a name, or the error it throws
Normalized(name) == [threw |-> FALSE, name |-> name]
NormalizeThrew == [threw |-> TRUE, name |-> <<>>]

\* (variant: the name is not trimmed)
normalizeWithoutTrim(dataSourceName) ==
  IF dataSourceName.t \in {"null", "undefined"}
    THEN Normalized(DEFAULT_DATA_SOURCE_NAME)
  ELSE IF dataSourceName.t # "string"
    THEN NormalizeThrew
  ELSE IF dataSourceName.s = <<>>
    THEN Normalized(DEFAULT_DATA_SOURCE_NAME)
  ELSE Normalized(dataSourceName.s)

normalizeDataSourceName(dataSourceName) ==
  IF dataSourceName.t \in {"null", "undefined"}
    THEN Normalized(DEFAULT_DATA_SOURCE_NAME)
  ELSE IF dataSourceName.t # "string"
    THEN NormalizeThrew
  ELSE IF Trim(dataSourceName.s) = <<>>
    THEN Normalized(DEFAULT_DATA_SOURCE_NAME)
  ELSE Normalized(Trim(dataSourceName.s))

\* Map.prototype.set / get / clear on the dataSources map
\* (variant: set keeps an entry that is already there)
MapSetKeepsFirst(m, k, v) ==
  [x \in (DOMAIN m) \cup {k} |-> IF x \in DOMAIN m THEN m[x] ELSE v]

MapSet(m, k, v) == [x \in (DOMAIN m) \cup {k} |-> IF x = k THEN v ELSE m[x]]
MapGet(m, k) == IF k \in DOMAIN m THEN m[k] ELSE NoHandle
EmptyMap == [x \in {} |-> NoHandle]

\* names a caller passes to register / resolve
RawNames ==
  { Undefined, Null, Num(<<"1","2","3">>),
    Str(<<>>), Str(<<" ">>), Str(DEFAULT_DATA_SOURCE_NAME),
    Str(<<"a">>), Str(<<" ","a"," ">>), Str(<<"A">>) }

\* the synchronous part of getDataSourceForValidation, up to its await
GetResult(step, error, handle, name) ==
  [step |-> step, error |-> error, ds |-> handle, name |-> name]

\* (variant: the handle found is returned whatever its readiness)
getWithoutInitialize(dataSourceName, map, ready) ==
  LET n == normalizeDataSourceName(dataSourceName)
      d == MapGet(map, n.name)
  IN IF n.threw
       THEN GetResult("threw", <<DataSourceInvalidError>>, NoHandle, <<>>)
     ELSE IF d = NoHandle
       THEN GetResult("threw", <<DataSourceNotRegisteredError(n.name)>>,
                      NoHandle, n.name)
     ELSE GetResult("return", <<>>, d, n.name)

getDataSourceForValidation(dataSourceName, map, ready) ==
  LET n == normalizeDataSourceName(dataSourceName)
      d == MapGet(map, n.name)
  IN IF n.threw
       THEN GetResult("threw", <<DataSourceInvalidError>>, NoHandle, <<>>)
     ELSE IF d = NoHandle
       THEN GetResult("threw", <<DataSourceNotRegisteredError(n.name)>>,
                      NoHandle, n.name)
     ELSE IF ~ready[d]
       THEN GetResult("await", <<>>, d, n.name)
     ELSE GetResult("return", <<>>, d, n.name)

\* (variant: the readiness read before the await decides after it)
afterInitializeStale(d, name, ready) ==
  GetResult("threw", <<DataSourceInitializationError(name)>>, d, name)

\* (variant: the handle is returned after the await without a second look at
\* its readiness)
afterInitializeUnchecked(d, name, ready) == GetResult("return", <<>>, d, name)

\* ... and the part after the await on initialize()
afterInitialize(d, name, ready) ==
  IF ~ready[d]
    THEN GetResult("threw", <<DataSourceInitializationError(name)>>, d, name)
    ELSE GetResult("return", <<>>, d, name)

\* what the handle's initialize() promise can do
InitOutcomes == {"ready", "noop", "reject"}
InitRejection == PlainError(<<"i","n","i","t"," ","f","a","i","l">>)
\* the errors initialize() rejects with in direct resolve calls
RegistryInitThrowables ==
  {ThrowError(InitRejection), ThrowError(PlainError(<<"d","o","w","n">>))}

\* (variant: a rejection is converted into the initialization error)
initializeRejectedWrapped(thrown, name) == DataSourceInitializationError(name)

\* await dataSource.initialize() when the promise rejects: the rejection is
\* the error of the call
initializeRejected(thrown, name) == thrown.error

\* ------------------------------------------------------------------- state
NoArg == [name |-> Undefined, value |-> Undefined, entity |-> Undefined,
          column |-> Undefined, each |-> Undefined]
NoCount == [resolve |-> 0, init |-> 0, repo |-> 0, builder |-> 0, query |-> 0]
NoRet == [t |-> "none", v |-> <<>>]
NoReply == [t |-> "none", hasCnt |-> FALSE, cnt |-> Undefined]
\* how the promise of initialize() settled: resolved (the handle ready or
\* not), or rejected with what it threw
Settled(o, thrown) == [o |-> o, thrown |-> thrown]
NotAwaited == Settled("none", <<>>)

VARIABLES
  dataSources,    \* the module-level Map: normalized name -> handle
  isInitialized,  \* the isInitialized flag of every handle
  initCalls,      \* how often initialize() was invoked on every handle
  log,            \* history: the successful register calls and the clear calls
  lastRaw,        \* history: the name argument of the last successful register
  regErr,         \* what the last register call threw (<<>>: nothing)
  pc,             \* where every call is: idle, awaitInit, awaitQuery, done
  kind,           \* what every call is: get, ExistsIn, UniqueIn
  arg,            \* the arguments of the call
  seen,           \* history: length of the log when the call read the map
  ds,             \* the local dataSource of the call
  dsName,         \* the local normalizedName of the call
  uniq,           \* the local uniqueValues of the call (array path)
  batch,          \* whether the call took the array-value path
  reply,          \* what getRawOne resolved to
  initResult,     \* history: how the awaited initialize() settled
  caught,         \* history: what the catch block of valueExists caught
  verdict,        \* what valueExists returned to validate
  status,         \* pending, returned, threw
  ret,            \* the value the call returned
  err,            \* the error the call threw (<<>>: none)
  count,          \* per call: resolves, initialize calls, accessors, builders, queries
  registerDecoratorCalls  \* the arguments registerDecorator was called with

callVars == <<pc, kind, arg, seen, ds, dsName, uniq, batch, reply, initResult,
              caught, verdict, status, ret, err, count>>
vars == <<dataSources, isInitialized, initCalls, log, lastRaw, regErr, pc, kind,
          arg, seen, ds, dsName, uniq, batch, reply, initResult, caught, verdict,
          status, ret, err, count, registerDecoratorCalls>>

\* the call slots: the sequential specifications use the first one only
Calls == {1}
Slots == {1, 2}

\* the registry is empty after module load; the handles are the caller's and
\* may or may not have been initialized by the caller
Init ==
  /\ dataSources = EmptyMap
  /\ isInitialized \in [Handles -> BOOLEAN]
  /\ initCalls = [h \in Handles |-> 0]
  /\ log = <<>>
  /\ lastRaw = Undefined
  /\ regErr = <<>>
  /\ pc = [c \in Slots |-> "idle"]
  /\ kind = [c \in Slots |-> "none"]
  /\ arg = [c \in Slots |-> NoArg]
  /\ seen = [c \in Slots |-> 0]
  /\ ds = [c \in Slots |-> NoHandle]
  /\ dsName = [c \in Slots |-> <<>>]
  /\ uniq = [c \in Slots |-> <<>>]
  /\ batch = [c \in Slots |-> FALSE]
  /\ reply = [c \in Slots |-> NoReply]
  /\ initResult = [c \in Slots |-> NotAwaited]
  /\ caught = [c \in Slots |-> <<>>]
  /\ verdict = [c \in Slots |-> NoRet]
  /\ status = [c \in Slots |-> "pending"]
  /\ ret = [c \in Slots |-> NoRet]
  /\ err = [c \in Slots |-> <<>>]
  /\ count = [c \in Slots |-> NoCount]
  /\ registerDecoratorCalls = <<>>

\* ---------------------------------------------------------------- registry
\* (variant: the handle is stored before the name is found invalid)
registerStoresFirst(dataSourceInstance, dataSourceName) ==
  LET n == normalizeDataSourceName(dataSourceName)
  IN IF dataSourceInstance = "null" \/ ~HasGetRepository(dataSourceInstance)
       THEN /\ regErr' = <<DataSourceInvalidError>>
            /\ UNCHANGED <<dataSources, log, lastRaw>>
     ELSE IF n.threw
       THEN /\ regErr' = <<DataSourceInvalidError>>
            /\ dataSources' = MapSet(dataSources, DEFAULT_DATA_SOURCE_NAME,
                                     dataSourceInstance)
            /\ UNCHANGED <<log, lastRaw>>
       ELSE /\ Len(log) < MaxOps
            /\ dataSources' = MapSet(dataSources, n.name, dataSourceInstance)
            /\ log' = Append(log, [op |-> "register", name |-> n.name,
                                   handle |-> dataSourceInstance])
            /\ lastRaw' = dataSourceName
            /\ regErr' = <<>>

\* registration that tests the handle for falsiness only
registerWithoutMethodCheck(dataSourceInstance, dataSourceName) ==
  LET n == normalizeDataSourceName(dataSourceName)
  IN IF dataSourceInstance = "null" \/ n.threw
       THEN /\ regErr' = <<DataSourceInvalidError>>
            /\ UNCHANGED <<dataSources, log, lastRaw>>
       ELSE /\ Len(log) < MaxOps
            /\ dataSources' = MapSet(dataSources, n.name, dataSourceInstance)
            /\ log' = Append(log, [op |-> "register", name |-> n.name,
                                   handle |-> dataSourceInstance])
            /\ lastRaw' = dataSourceName
            /\ regErr' = <<>>

registerDataSourceForValidation(dataSourceInstance, dataSourceName) ==
  LET n == normalizeDataSourceName(dataSourceName)
  IN IF dataSourceInstance = "null" \/ ~HasGetRepository(dataSourceInstance)
          \/ n.threw
       THEN /\ regErr' = <<DataSourceInvalidError>>
            /\ UNCHANGED <<dataSources, log, lastRaw>>
       ELSE /\ Len(log) < MaxOps
            /\ dataSources' = MapSet(dataSources, n.name, dataSourceInstance)
            /\ log' = Append(log, [op |-> "register", name |-> n.name,
                                   handle |-> dataSourceInstance])
            /\ lastRaw' = dataSourceName
            /\ regErr' = <<>>

\* a register call with arguments from the given sets
Register(handleArgs, names) ==
  /\ \E h \in handleArgs, n \in names :
       registerDataSourceForValidation(h, n)
  /\ UNCHANGED <<isInitialized, initCalls, registerDecoratorCalls>>
  /\ UNCHANGED callVars

clearDataSourcesForValidation ==
  /\ Len(log) < MaxOps
  /\ dataSources' = EmptyMap
  /\ log' = Append(log, [op |-> "clear", name |-> <<>>, handle |-> NoHandle])
  /\ UNCHANGED <<isInitialized, initCalls, lastRaw, regErr, registerDecoratorCalls>>
  /\ UNCHANGED callVars

\* a call returns r (e = <<>>) or throws e
Finish(c, r, e) ==
  /\ pc' = [pc EXCEPT ![c] = "done"]
  /\ status' = [status EXCEPT ![c] = IF e = <<>> THEN "returned" ELSE "threw"]
  /\ ret' = [ret EXCEPT ![c] = IF e = <<>> THEN r ELSE NoRet]
  /\ err' = [err EXCEPT ![c] = e]

HandleRet(h) == [t |-> "handle", v |-> <<h>>]

\* a direct call of getDataSourceForValidation(name), up to its await
GetStart(c, names) ==
  /\ pc[c] = "idle"
  /\ UNCHANGED registerDecoratorCalls
  /\ \E n \in names :
       LET g == getDataSourceForValidation(n, dataSources, isInitialized)
       IN /\ kind' = [kind EXCEPT ![c] = "get"]
          /\ arg' = [arg EXCEPT ![c] = [NoArg EXCEPT !.name = n]]
          /\ seen' = [seen EXCEPT ![c] = Len(log)]
          /\ ds' = [ds EXCEPT ![c] = g.ds]
          /\ dsName' = [dsName EXCEPT ![c] = g.name]
          /\ count' = [count EXCEPT ![c] =
                         [NoCount EXCEPT !.resolve = 1,
                                         !.init = IF g.step = "await" THEN 1 ELSE 0]]
          /\ IF g.step = "await"
               THEN /\ initCalls' = [initCalls EXCEPT ![g.ds] = @ + 1]
                    /\ pc' = [pc EXCEPT ![c] = "awaitInit"]
                    /\ UNCHANGED <<status, ret, err>>
               ELSE /\ Finish(c, HandleRet(g.ds), g.error)
                    /\ UNCHANGED initCalls
  /\ UNCHANGED <<dataSources, isInitialized, log, lastRaw, regErr>>
  /\ UNCHANGED <<uniq, batch, reply, initResult, caught, verdict>>

\* (variant: the map is read again after the await)
GetInitSettleRereads(c, throwables) ==
  /\ pc[c] = "awaitInit"
  /\ UNCHANGED registerDecoratorCalls
  /\ kind[c] = "get"
  /\ \E o \in InitOutcomes, t \in throwables :
       /\ isInitialized' = IF o = "ready"
                             THEN [isInitialized EXCEPT ![ds[c]] = TRUE]
                             ELSE isInitialized
       /\ initResult' = [initResult EXCEPT ![c] =
                           Settled(o, IF o = "reject" THEN <<t>> ELSE <<>>)]
       /\ IF o = "reject"
            THEN Finish(c, NoRet, <<initializeRejected(t, dsName[c])>>)
            ELSE LET g == getDataSourceForValidation(Str(dsName[c]), dataSources,
                                                    [h \in Handles |-> TRUE])
                 IN Finish(c, HandleRet(g.ds), g.error)
  /\ UNCHANGED <<dataSources, initCalls, log, lastRaw, regErr>>
  /\ UNCHANGED <<kind, arg, seen, ds, dsName, uniq, batch, reply, caught,
                 verdict, count>>

\* (variant: a rejected initialize() is attempted a second time)
GetInitSettleRetries(c, throwables) ==
  /\ pc[c] = "awaitInit"
  /\ UNCHANGED registerDecoratorCalls
  /\ kind[c] = "get"
  /\ \E o \in InitOutcomes, t \in throwables :
       /\ isInitialized' = IF o = "ready"
                             THEN [isInitialized EXCEPT ![ds[c]] = TRUE]
                             ELSE isInitialized
       /\ initResult' = [initResult EXCEPT ![c] =
                           Settled(o, IF o = "reject" THEN <<t>> ELSE <<>>)]
       /\ IF o = "reject" /\ initCalls[ds[c]] < 2
            THEN /\ initCalls' = [initCalls EXCEPT ![ds[c]] = @ + 1]
                 /\ UNCHANGED <<pc, status, ret, err>>
          ELSE IF o = "reject"
            THEN /\ Finish(c, NoRet, <<initializeRejected(t, dsName[c])>>)
                 /\ UNCHANGED initCalls
            ELSE LET g == afterInitialize(ds[c], dsName[c], isInitialized')
                 IN /\ Finish(c, HandleRet(g.ds), g.error)
                    /\ UNCHANGED initCalls
  /\ UNCHANGED <<dataSources, log, lastRaw, regErr>>
  /\ UNCHANGED <<kind, arg, seen, ds, dsName, uniq, batch, reply, caught,
                 verdict, count>>

\* the initialize() promise of a direct call settles
GetInitSettle(c, throwables) ==
  /\ pc[c] = "awaitInit"
  /\ UNCHANGED registerDecoratorCalls
  /\ kind[c] = "get"
  /\ \E o \in InitOutcomes, t \in throwables :
       /\ isInitialized' = IF o = "ready"
                             THEN [isInitialized EXCEPT ![ds[c]] = TRUE]
                             ELSE isInitialized
       /\ initResult' = [initResult EXCEPT ![c] =
                           Settled(o, IF o = "reject" THEN <<t>> ELSE <<>>)]
       /\ IF o = "reject"
            THEN Finish(c, NoRet, <<initializeRejected(t, dsName[c])>>)
            ELSE LET g == afterInitialize(ds[c], dsName[c], isInitialized')
                 IN Finish(c, HandleRet(g.ds), g.error)
  /\ UNCHANGED <<dataSources, initCalls, log, lastRaw, regErr>>
  /\ UNCHANGED <<kind, arg, seen, ds, dsName, uniq, batch, reply, caught,
                 verdict, count>>

\* the registry and direct resolve calls
NextRegistry ==
  \/ Register(HandleArgs, RawNames)
  \/ clearDataSourcesForValidation
  \/ \E c \in Calls : GetStart(c, RawNames)
  \/ \E c \in Calls : GetInitSettle(c, RegistryInitThrowables)

SpecRegistry == Init /\ [][NextRegistry]_vars

\* registrations and clears alone, with every kind of argument
NextRegister ==
  \/ Register(HandleArgs, RawNames)
  \/ clearDataSourcesForValidation

SpecRegister == Init /\ [][NextRegister]_vars

\* -------------------------------------------------------------- validators
BoolRet(b) == [t |-> "boolean", v |-> <<b>>]
TupleRet(anyExists, allExists) == [t |-> "array", v |-> <<anyExists, allExists>>]

\* the ! operator: an array is an object, and every object is truthy
JSNot(x) == BoolRet(IF x.t = "boolean" THEN ~x.v[1] ELSE FALSE)

\* BaseValidator.validateConstraints: the error it throws, if any
\* (variant: only the entity is required)
validateConstraintsEntityOnly(a, validatorName) ==
  IF Falsy(a.entity)
    THEN <<ValidationConfigurationError(
             <<validatorName, ": entity/table name and column name are required">>)>>
    ELSE <<>>

validateConstraints(a, validatorName) ==
  IF Falsy(a.entity) \/ Falsy(a.column)
    THEN <<ValidationConfigurationError(
             <<validatorName, ": entity/table name and column name are required">>)>>
    ELSE <<>>

\* BaseValidator.getEntityName (validate passes it truthy targets only)
getEntityName(entityOrTableName) ==
  IF entityOrTableName.t = "string" THEN entityOrTableName.s
  ELSE IF entityOrTableName.t = "function" /\ entityOrTableName.s # <<>>
    THEN entityOrTableName.s
  ELSE <<"e","n","t","i","t","y">>

\* (variant: only the configuration error passes the catch block untouched)
TypedErrorsConfigurationOnly == {"ValidationConfigurationError"}

TypedErrors == {"ValidationConfigurationError", "DataSourceNotRegisteredError",
                "DataSourceInitializationError", "DataSourceInvalidError"}

\* the catch block of valueExists: the error it throws for what it caught
translate(thrown, a) ==
  LET errMsg == IF thrown.isError THEN thrown.error.message
                                  ELSE JSString(thrown.value)
      originalError == IF thrown.isError THEN thrown.error
                                         ELSE PlainError(JSString(thrown.value))
      entityName == getEntityName(a.entity)
  IN IF thrown.isError /\ thrown.error.name \in TypedErrors
       THEN thrown.error
     ELSE IF \/ TestIgnoreCase(<<"n","o"," ","m","e","t","a","d","a","t","a">>, errMsg)
             \/ TestIgnoreCase(<<"d","o","e","s","n","'","t"," ","e","x","i","s","t">>, errMsg)
       THEN ValidationConfigurationError(
              <<"No metadata found for \"">> \o entityName
                \o <<"\". Ensure it exists and is properly registered in the data source.">>)
     ELSE ValidationQueryError(
            <<"Failed to validate in ">> \o entityName \o <<".">>
              \o JSString(a.column),
            originalError)

\* (variant: the connection name of the constraints is ignored)
alwaysDefaultName(dataSourceName) == Undefined

\* (variant: the connection is resolved outside the try block)
resolveOutsideTry(thrown, a) ==
  IF thrown.isError THEN thrown.error ELSE PlainError(JSString(thrown.value))

\* the await on getDataSourceForValidation stands inside the try block: what
\* initialize() rejects with goes through the catch block
resolveRejected(thrown, a) == translate(thrown, a)

\* the name valueExists passes to getDataSourceForValidation
normalizedDataSourceName(dataSourceName) ==
  IF ~Falsy(dataSourceName) /\ dataSourceName.t = "string"
       /\ Trim(dataSourceName.s) # <<>>
    THEN Str(Trim(dataSourceName.s))
    ELSE Undefined

\* how the store behaves when asked for the accessor and the query builder
StoreOk == [fail |-> "none", thrown |-> ThrowValue(Undefined)]
StoreFails(where, thrown) == [fail |-> where, thrown |-> thrown]

QueryResult(step, thrown, a, v, uniqueValues, isArray, repo, builder, query) ==
  [step |-> step, caught |-> thrown,
   error |-> IF thrown = <<>> THEN <<>> ELSE <<translate(thrown[1], a)>>,
   verdict |-> v, uniq |-> uniqueValues, batch |-> isArray, repo |-> repo,
   builder |-> builder, query |-> query]

\* (variant: an empty list of values is queried like any other)
issueQueryAlways(a, store) ==
  LET split == a.each = True
      isArray == split \/ a.value.t = "array"
      values == IF split THEN SplitValues(a.value.s) ELSE a.value.s
      uniqueValues == IF isArray THEN Dedupe(values) ELSE <<>>
  IN IF store.fail = "repo"
       THEN QueryResult("threw", <<store.thrown>>, a, NoRet, <<>>,
                        FALSE, 1, 0, 0)
     ELSE IF split /\ a.value.t # "string"
       THEN QueryResult("threw",
                        <<ThrowError(TypeError(
                            <<"queryValue.split is not a function">>))>>,
                        a, NoRet, <<>>, FALSE, 1, 0, 0)
     ELSE IF store.fail = "builder"
       THEN QueryResult("threw", <<store.thrown>>, a, NoRet,
                        uniqueValues, isArray, 1, 1, 0)
     ELSE QueryResult("await", <<>>, a, NoRet, uniqueValues, isArray, 1, 1, 1)

\* valueExists from getRepository to the await on getRawOne
issueQuery(a, store) ==
  LET split == a.each = True
      isArray == split \/ a.value.t = "array"
      values == IF split THEN SplitValues(a.value.s) ELSE a.value.s
      uniqueValues == IF isArray THEN Dedupe(values) ELSE <<>>
  IN IF store.fail = "repo"
       THEN QueryResult("threw", <<store.thrown>>, a, NoRet, <<>>,
                        FALSE, 1, 0, 0)
     ELSE IF split /\ a.value.t # "string"
       THEN QueryResult("threw",
                        <<ThrowError(TypeError(
                            <<"queryValue.split is not a function">>))>>,
                        a, NoRet, <<>>, FALSE, 1, 0, 0)
     ELSE IF isArray /\ values = <<>>
       THEN QueryResult("return", <<>>, a, TupleRet(FALSE, FALSE), <<>>, TRUE,
                        1, 0, 0)
     ELSE IF store.fail = "builder"
       THEN QueryResult("threw", <<store.thrown>>, a, NoRet,
                        uniqueValues, isArray, 1, 1, 0)
     ELSE QueryResult("await", <<>>, a, NoRet, uniqueValues, isArray, 1, 1, 1)

\* what getRawOne can resolve to
Row == [t |-> "object", hasCnt |-> FALSE, cnt |-> Undefined]
NullReply == [t |-> "null", hasCnt |-> FALSE, cnt |-> Undefined]
UndefinedReply == [t |-> "undefined", hasCnt |-> FALSE, cnt |-> Undefined]
CountRow(cnt) == [t |-> "object", hasCnt |-> TRUE, cnt |-> cnt]

RowReplies == {Row, NullReply, UndefinedReply}
CountReplies ==
  RowReplies
    \cup {CountRow(Num(<<DigitChars[k + 1]>>)) : k \in 0..MaxCount}
    \cup {CountRow(Str(<<DigitChars[k + 1]>>)) : k \in 0..MaxCount}
    \cup {CountRow(Str(<<"x">>))}

\* (countResult && ('cnt' in countResult ? Number(countResult.cnt) : 0)) ?? 0
found(countResult) ==
  IF countResult.t \in {"null", "undefined"} THEN Number(0)
  ELSE IF countResult.hasCnt THEN ToNumber(countResult.cnt)
  ELSE Number(0)

\* (variant: all exist when the count does not exceed the number of values)
verdictAllWithinSize(r, isArray, uniqueValues) ==
  IF isArray
    THEN LET f == found(r)
         IN TupleRet(~f.nan /\ f.n > 0, ~f.nan /\ f.n <= Len(uniqueValues))
    ELSE TupleRet(r.t \notin {"null", "undefined"},
                  r.t \notin {"null", "undefined"})

\* (variant: all exist as soon as one is found)
verdictAnyForAll(r, isArray, uniqueValues) ==
  IF isArray
    THEN LET f == found(r)
         IN TupleRet(~f.nan /\ f.n > 0, ~f.nan /\ f.n > 0)
    ELSE TupleRet(r.t \notin {"null", "undefined"},
                  r.t \notin {"null", "undefined"})

\* valueExists after the await on getRawOne
verdictOf(r, isArray, uniqueValues) ==
  IF isArray
    THEN LET f == found(r)
         IN TupleRet(~f.nan /\ f.n > 0, ~f.nan /\ f.n = Len(uniqueValues))
    ELSE TupleRet(r.t \notin {"null", "undefined"},
                  r.t \notin {"null", "undefined"})

\* ExistsInValidator.validate / UniqueInValidator.validate: what they return
\* for the value valueExists resolved to
existsInReturns(exists) == exists
uniqueInReturns(exists) == JSNot(exists)

validateReturns(k, exists) ==
  IF k = "ExistsIn" THEN existsInReturns(exists) ELSE uniqueInReturns(exists)

\* (variant: an empty list of values is answered before the connection is
\* resolved)
emptyListFirst(k, a) ==
  IF a.value.t \in {"null", "undefined"}
    THEN [done |-> TRUE, ret |-> BoolRet(k = "UniqueIn"), error |-> <<>>]
  ELSE IF validateConstraints(a, k) # <<>>
    THEN [done |-> TRUE, ret |-> NoRet, error |-> validateConstraints(a, k)]
  ELSE IF a.each = True /\ a.value.t = "string" /\ SplitValues(a.value.s) = <<>>
    THEN [done |-> TRUE, ret |-> validateReturns(k, TupleRet(FALSE, FALSE)),
          error |-> <<>>]
  ELSE [done |-> FALSE, ret |-> NoRet, error |-> <<>>]

\* (variant: the constraints are validated before the value is looked at)
constraintsBeforeNull(k, a) ==
  IF validateConstraints(a, k) # <<>>
    THEN [done |-> TRUE, ret |-> NoRet, error |-> validateConstraints(a, k)]
  ELSE IF a.value.t \in {"null", "undefined"}
    THEN [done |-> TRUE, ret |-> BoolRet(k = "UniqueIn"), error |-> <<>>]
  ELSE [done |-> FALSE, ret |-> NoRet, error |-> <<>>]

\* validate before it calls valueExists
beforeValueExists(k, a) ==
  IF a.value.t \in {"null", "undefined"}
    THEN [done |-> TRUE, ret |-> BoolRet(k = "UniqueIn"), error |-> <<>>]
  ELSE IF validateConstraints(a, k) # <<>>
    THEN [done |-> TRUE, ret |-> NoRet, error |-> validateConstraints(a, k)]
  ELSE [done |-> FALSE, ret |-> NoRet, error |-> <<>>]

\* the call c goes through issueQuery: it returns, throws or awaits the store
RunQuery(c, k, q, n) ==
  /\ uniq' = [uniq EXCEPT ![c] = q.uniq]
  /\ batch' = [batch EXCEPT ![c] = q.batch]
  /\ count' = [count EXCEPT ![c] =
                 [resolve |-> 1, init |-> n, repo |-> q.repo,
                  builder |-> q.builder, query |-> q.query]]
  /\ IF q.step = "await"
       THEN /\ pc' = [pc EXCEPT ![c] = "awaitQuery"]
            /\ UNCHANGED <<verdict, status, ret, err>>
       ELSE /\ verdict' = [verdict EXCEPT ![c] = q.verdict]
            /\ Finish(c, validateReturns(k, q.verdict), q.error)
  /\ caught' = [caught EXCEPT ![c] = q.caught]

\* a validate call, up to its first await that suspends
ValidateStart(c, kinds, args, stores) ==
  /\ pc[c] = "idle"
  /\ UNCHANGED registerDecoratorCalls
  /\ \E k \in kinds, a \in args, store \in stores :
       LET b == beforeValueExists(k, a)
           g == getDataSourceForValidation(normalizedDataSourceName(a.name),
                                           dataSources, isInitialized)
       IN /\ kind' = [kind EXCEPT ![c] = k]
          /\ arg' = [arg EXCEPT ![c] = a]
          /\ IF b.done
               THEN /\ Finish(c, b.ret, b.error)
                    /\ UNCHANGED <<seen, ds, dsName, uniq, batch, verdict,
                                   count, initCalls, caught>>
             ELSE /\ seen' = [seen EXCEPT ![c] = Len(log)]
                  /\ ds' = [ds EXCEPT ![c] = g.ds]
                  /\ dsName' = [dsName EXCEPT ![c] = g.name]
                  /\ CASE g.step = "threw" ->
                            /\ Finish(c, NoRet,
                                      <<translate(ThrowError(g.error[1]), a)>>)
                            /\ caught' = [caught EXCEPT ![c] =
                                             <<ThrowError(g.error[1])>>]
                            /\ count' = [count EXCEPT ![c].resolve = 1]
                            /\ UNCHANGED <<uniq, batch, verdict, initCalls>>
                       [] g.step = "await" ->
                            /\ initCalls' = [initCalls EXCEPT ![g.ds] = @ + 1]
                            /\ pc' = [pc EXCEPT ![c] = "awaitInit"]
                            /\ count' = [count EXCEPT ![c].resolve = 1,
                                                      ![c].init = 1]
                            /\ UNCHANGED <<uniq, batch, verdict, status, ret, err,
                                           caught>>
                       [] OTHER ->
                            /\ RunQuery(c, k, issueQuery(a, store), 0)
                            /\ UNCHANGED initCalls
  /\ UNCHANGED <<dataSources, isInitialized, log, lastRaw, regErr, reply,
                 initResult>>

\* (variant: a handle whose initialize() rejected is taken out of the map)
ValidateInitSettleEvicts(c, stores, throwables) ==
  /\ pc[c] = "awaitInit"
  /\ UNCHANGED registerDecoratorCalls
  /\ kind[c] \in {"ExistsIn", "UniqueIn"}
  /\ \E o \in InitOutcomes, store \in stores, t \in throwables :
       LET g == afterInitialize(ds[c], dsName[c], isInitialized')
       IN /\ isInitialized' = IF o = "ready"
                                THEN [isInitialized EXCEPT ![ds[c]] = TRUE]
                                ELSE isInitialized
          /\ dataSources' = IF o = "reject"
                              THEN [k \in DOMAIN dataSources \ {dsName[c]} |->
                                      dataSources[k]]
                              ELSE dataSources
          /\ initResult' = [initResult EXCEPT ![c] =
                              Settled(o, IF o = "reject" THEN <<t>> ELSE <<>>)]
          /\ IF o = "reject"
               THEN /\ Finish(c, NoRet, <<resolveRejected(t, arg[c])>>)
                    /\ caught' = [caught EXCEPT ![c] = <<t>>]
                    /\ UNCHANGED <<uniq, batch, verdict, count>>
             ELSE IF g.step = "threw"
               THEN /\ Finish(c, NoRet,
                              <<translate(ThrowError(g.error[1]), arg[c])>>)
                    /\ caught' = [caught EXCEPT ![c] =
                                     <<ThrowError(g.error[1])>>]
                    /\ UNCHANGED <<uniq, batch, verdict, count>>
             ELSE RunQuery(c, kind[c], issueQuery(arg[c], store), 1)
  /\ UNCHANGED <<initCalls, log, lastRaw, regErr>>
  /\ UNCHANGED <<kind, arg, seen, ds, dsName, reply>>

\* the initialize() promise of a validate call settles
ValidateInitSettle(c, stores, throwables) ==
  /\ pc[c] = "awaitInit"
  /\ UNCHANGED registerDecoratorCalls
  /\ kind[c] \in {"ExistsIn", "UniqueIn"}
  /\ \E o \in InitOutcomes, store \in stores, t \in throwables :
       LET g == afterInitialize(ds[c], dsName[c], isInitialized')
       IN /\ isInitialized' = IF o = "ready"
                                THEN [isInitialized EXCEPT ![ds[c]] = TRUE]
                                ELSE isInitialized
          /\ initResult' = [initResult EXCEPT ![c] =
                              Settled(o, IF o = "reject" THEN <<t>> ELSE <<>>)]
          /\ IF o = "reject"
               THEN /\ Finish(c, NoRet, <<resolveRejected(t, arg[c])>>)
                    /\ caught' = [caught EXCEPT ![c] = <<t>>]
                    /\ UNCHANGED <<uniq, batch, verdict, count>>
             ELSE IF g.step = "threw"
               THEN /\ Finish(c, NoRet,
                              <<translate(ThrowError(g.error[1]), arg[c])>>)
                    /\ caught' = [caught EXCEPT ![c] =
                                     <<ThrowError(g.error[1])>>]
                    /\ UNCHANGED <<uniq, batch, verdict, count>>
             ELSE RunQuery(c, kind[c], issueQuery(arg[c], store), 1)
  /\ UNCHANGED <<dataSources, initCalls, log, lastRaw, regErr>>
  /\ UNCHANGED <<kind, arg, seen, ds, dsName, reply>>

\* the getRawOne() promise settles
QuerySettle(c, throwables) ==
  /\ pc[c] = "awaitQuery"
  /\ UNCHANGED registerDecoratorCalls
  /\ \/ \E r \in (IF batch[c] THEN CountReplies ELSE RowReplies) :
          /\ reply' = [reply EXCEPT ![c] = r]
          /\ verdict' = [verdict EXCEPT ![c] = verdictOf(r, batch[c], uniq[c])]
          /\ Finish(c, validateReturns(kind[c], verdict'[c]), <<>>)
          /\ UNCHANGED caught
     \/ \E t \in throwables :
          /\ Finish(c, NoRet, <<translate(t, arg[c])>>)
          /\ caught' = [caught EXCEPT ![c] = <<t>>]
          /\ UNCHANGED <<reply, verdict>>
  /\ UNCHANGED <<dataSources, isInitialized, initCalls, log, lastRaw, regErr>>
  /\ UNCHANGED <<kind, arg, seen, ds, dsName, uniq, batch, count, initResult>>

\* the inputs of the validators
Kinds == {"ExistsIn", "UniqueIn"}
Values ==
  { Null, Undefined, Num(<<"4", "2">>), Str(<<"a">>),
    Str(<<"a", ",", "b", ",", "a">>), Str(<<"a", ",", " ", "b">>),
    Str(<<",">>), Str(<<>>), Str(<<" ">>),
    Arr(<< <<"a">>, <<"b">> >>) }
Entities == {Str(<<"t">>), Cls(<<"D">>), Undefined}
Columns == {Str(<<"i", "d">>), Undefined}
ConstraintNames == {Undefined, Str(<<" ", "a", " ">>)}
Eachs == {True, Undefined}
Args ==
  { [name |-> n, value |-> v, entity |-> e, column |-> col, each |-> ea] :
      n \in ConstraintNames, v \in Values, e \in Entities, col \in Columns,
      ea \in Eachs }
SetupNames == {Undefined, Str(<<"a">>)}
Throwables == {ThrowError(PlainError(<<"b", "o", "o", "m">>))}
Stores ==
  {StoreOk} \cup {StoreFails(w, t) : w \in {"repo", "builder"}, t \in Throwables}
InitThrowables == {ThrowError(InitRejection)}

\* the registry and validate calls
Next ==
  \/ Register(Handles, SetupNames)
  \/ clearDataSourcesForValidation
  \/ \E c \in Calls : ValidateStart(c, Kinds, Args, Stores)
  \/ \E c \in Calls : ValidateInitSettle(c, Stores, InitThrowables)
  \/ \E c \in Calls : QuerySettle(c, Throwables)

Spec == Init /\ [][Next]_vars

\* ---- validations against a store that fails in many ways ----
\* what a store (or the registry under it) throws: errors with unrelated
\* messages, with messages of a missing schema in several spellings, values
\* that are no errors, and the typed errors of the package
StoreThrowables ==
  { ThrowError(PlainError(<<"b","o","o","m">>)),
    ThrowError(PlainError(<<"N","o"," ","M","e","t","a","d","a","t","a"," ","f","o","r"," ","D">>)),
    ThrowError(PlainError(<<"t"," ","D","O","E","S","N","'","T"," ","e","x","i","s","t">>)),
    ThrowError(PlainError(<<"n","o","m","e","t","a","d","a","t","a">>)),
    ThrowValue(Str(<<"b","o","o","m","-","s">>)),
    ThrowValue(Num(<<"1","2","3","4","5">>)),
    ThrowValue(Str(<<"n","o"," ","m","e","t","a","d","a","t","a">>)),
    ThrowError(DataSourceInvalidError),
    ThrowError(ValidationConfigurationError(<<"x">>)),
    ThrowError(DataSourceNotRegisteredError(<<"z">>)),
    ThrowError(DataSourceInitializationError(<<"z">>)) }
FailingStores ==
  {StoreOk} \cup {StoreFails(w, t) : w \in {"repo", "builder"}, t \in StoreThrowables}
ErrorArgs ==
  { [name |-> Undefined, value |-> Str(<<"a">>), entity |-> e,
     column |-> Str(<<"i", "d">>), each |-> ea] :
      e \in {Str(<<"t">>), Cls(<<"D">>)}, ea \in Eachs }

NextErrors ==
  \/ Register(Handles, SetupNames)
  \/ clearDataSourcesForValidation
  \/ \E c \in Calls : ValidateStart(c, Kinds, ErrorArgs, FailingStores)
  \/ \E c \in Calls : ValidateInitSettle(c, FailingStores, StoreThrowables)
  \/ \E c \in Calls : QuerySettle(c, StoreThrowables)

SpecErrors == Init /\ [][NextErrors]_vars

\* ---- validations that name their connection in many ways ----
ConnectionNames ==
  { Undefined, Str(<<>>), Str(<<" ">>), Str(<<" ", "a", " ">>), Str(<<"b">>),
    Num(<<"7">>) }
NamedArgs ==
  { [name |-> n, value |-> Str(<<"a">>), entity |-> Str(<<"t">>),
     column |-> Str(<<"i", "d">>), each |-> ea] :
      n \in ConnectionNames, ea \in Eachs }
RegisteredNames == {Undefined, Str(<<"a">>), Str(<<"b">>)}

NextNames ==
  \/ Register(Handles, RegisteredNames)
  \/ clearDataSourcesForValidation
  \/ \E c \in Calls : ValidateStart(c, Kinds, NamedArgs, Stores)
  \/ \E c \in Calls : ValidateInitSettle(c, Stores, InitThrowables)
  \/ \E c \in Calls : QuerySettle(c, Throwables)

SpecNames == Init /\ [][NextNames]_vars

\* resolves of a few names against usable handles
ResolveNames == {Undefined, Str(<<" ", "a", " ">>), Str(<<"A">>)}

NextResolve ==
  \/ Register(Handles, SetupNames)
  \/ clearDataSourcesForValidation
  \/ \E c \in Calls : GetStart(c, ResolveNames)
  \/ \E c \in Calls : GetInitSettle(c, RegistryInitThrowables)

SpecResolve == Init /\ [][NextResolve]_vars

\* ---- two resolves at a time ----
NextConcurrent ==
  \/ Register(Handles, SetupNames)
  \/ clearDataSourcesForValidation
  \/ \E c \in Slots : GetStart(c, SetupNames)
  \/ \E c \in Slots : GetInitSettle(c, InitThrowables)

SpecConcurrent == Init /\ [][NextConcurrent]_vars

\* ---- direct resolves and validations side by side ----
NextCalls ==
  \/ Register(Handles, SetupNames)
  \/ clearDataSourcesForValidation
  \/ \E c \in Calls : GetStart(c, SetupNames)
  \/ \E c \in Calls : GetInitSettle(c, RegistryInitThrowables)
  \/ \E c \in Calls : ValidateStart(c, Kinds, ErrorArgs, Stores)
  \/ \E c \in Calls : ValidateInitSettle(c, Stores, InitThrowables)
  \/ \E c \in Calls : QuerySettle(c, Throwables)

SpecCalls == Init /\ [][NextCalls]_vars

\* -------------------------------------------------------------- decorators
\* a ValidationOptions object with the given each property (undefined: the
\* object has none)
Options(each) == [t |-> "object", s |-> <<>>, each |-> each]

\* validationOptions?.each
OptionalEach(validationOptions) ==
  IF validationOptions.t \in {"undefined", "null"}
    THEN Undefined
    ELSE validationOptions.each

\* what the decorator factory closes over, and the decorator function applied
\* to (object, propertyName): the argument of registerDecorator
Decorator(validationOptions, constraints, validator) ==
  [constraints |-> constraints, validator |-> validator,
   options |-> validationOptions]
ApplyDecorator(decorator, object, propertyName) ==
  [constraints |-> decorator.constraints, validator |-> decorator.validator,
   options |-> decorator.options, propertyName |-> propertyName,
   target |-> object.constructor]

\* (variant: the connection name and the column change places)
ExistsInSwapped(entityOrTableName, columnName, dataSourceName, validationOptions) ==
  Decorator(validationOptions,
            <<entityOrTableName, dataSourceName, columnName,
              OptionalEach(validationOptions)>>,
            "ExistsInValidator")

ExistsIn(entityOrTableName, columnName, dataSourceName, validationOptions) ==
  Decorator(validationOptions,
            <<entityOrTableName, columnName, dataSourceName,
              OptionalEach(validationOptions)>>,
            "ExistsInValidator")

UniqueIn(entityOrTableName, columnName, dataSourceName, validationOptions) ==
  Decorator(validationOptions,
            <<entityOrTableName, columnName, dataSourceName,
              OptionalEach(validationOptions)>>,
            "UniqueInValidator")

\* class-validator's registerDecorator, as the record of its calls
registerDecorator(options) ==
  /\ Len(registerDecoratorCalls) < MaxDecorated
  /\ registerDecoratorCalls' = Append(registerDecoratorCalls, options)
  /\ UNCHANGED <<dataSources, isInitialized, initCalls, log, lastRaw, regErr>>
  /\ UNCHANGED callVars

\* the arguments of the decorators and the properties they are put on
DecoratorEntities == {Str(<<"t">>), Cls(<<"D">>)}
DecoratorColumns == {Str(<<"i", "d">>)}
DecoratorNames == {Undefined, Str(<<"a">>)}
DecoratorOptions == {Undefined, Options(Undefined), Options(True), Options(False)}
Prototypes == {[constructor |-> "TestDto"], [constructor |-> "OtherDto"]}
PropertyNames == {"authorId"}

DecorateExistsIn(e, col, n, o, object, propertyName) ==
  registerDecorator(ApplyDecorator(ExistsIn(e, col, n, o), object, propertyName))
DecorateUniqueIn(e, col, n, o, object, propertyName) ==
  registerDecorator(ApplyDecorator(UniqueIn(e, col, n, o), object, propertyName))

NextDecorators ==
  \/ \E e \in DecoratorEntities, col \in DecoratorColumns, n \in DecoratorNames,
        o \in DecoratorOptions, object \in Prototypes, prop \in PropertyNames :
        DecorateExistsIn(e, col, n, o, object, prop)
  \/ \E e \in DecoratorEntities, col \in DecoratorColumns, n \in DecoratorNames,
        o \in DecoratorOptions, object \in Prototypes, prop \in PropertyNames :
        DecorateUniqueIn(e, col, n, o, object, prop)

SpecDecorators == Init /\ [][NextDecorators]_vars

\* ================================================================== claims
\* the normalized form of a name as the specification words it: null, undefined,
\* empty and whitespace-only names are "default", any other string is the
\* stretch between its first and its last non-whitespace character
HasNormalForm(n) == n.t \in {"null", "undefined", "string"}

NormalForm(n) ==
  IF n.t # "string" \/ \A i \in 1..Len(n.s) : n.s[i] \in WhiteSpace
    THEN <<"d","e","f","a","u","l","t">>
    ELSE LET first == CHOOSE i \in 1..Len(n.s) :
                        /\ n.s[i] \notin WhiteSpace
                        /\ \A j \in 1..(i - 1) : n.s[j] \in WhiteSpace
             last == CHOOSE i \in 1..Len(n.s) :
                        /\ n.s[i] \notin WhiteSpace
                        /\ \A j \in (i + 1)..Len(n.s) : n.s[j] \in WhiteSpace
         IN SubSeq(n.s, first, last)

\* the handle of the most recent register under a name that no clear followed
RECURSIVE LastRegistered(_, _)
LastRegistered(history, name) ==
  IF history = <<>> THEN NoHandle
  ELSE LET e == history[Len(history)]
       IN IF e.op = "clear" THEN NoHandle
          ELSE IF e.name = name THEN e.handle
          ELSE LastRegistered(SubSeq(history, 1, Len(history) - 1), name)

\* the history as it was when call c read the map
HistorySeen(c) == SubSeq(log, 1, seen[c])

Resolved(c) == kind[c] = "get" /\ pc[c] # "idle" /\ HasNormalForm(arg[c].name)

ResolvedAfterRegister(c) ==
  /\ Resolved(c)
  /\ seen[c] = Len(log)
  /\ Len(log) > 0
  /\ log[Len(log)].op = "register"

\* C2: register(h, n1) followed by resolve(n2) finds h whenever n1 and n2 have
\* the same normalized form (trimmed; null, undefined, empty and blank are
\* "default"; case-sensitive).
C2_SameNormalization ==
  \A c \in Calls :
    (ResolvedAfterRegister(c) /\ NormalForm(lastRaw) = NormalForm(arg[c].name))
      => /\ ds[c] = log[Len(log)].handle
         /\ status[c] = "returned" => ret[c] = HandleRet(log[Len(log)].handle)
         /\ status[c] = "threw" =>
              err[c][1].name \notin {"DataSourceNotRegisteredError",
                                     "DataSourceInvalidError"}

\* C2 witness: registered as "  a  "-like padded name, resolved by the bare
\* name; and registered under the empty name, resolved by null.
C2_Witness ==
  \E c \in Calls :
    /\ ResolvedAfterRegister(c)
    /\ status[c] = "returned"
    /\ lastRaw = Str(<<" ", "a", " ">>)
    /\ arg[c].name = Str(<<"a">>)

\* C10 (state part): resolving a name with no registered handle throws
\* DataSourceNotRegisteredError whose message contains the normalized name, and
\* the call invokes no initialize().
C10_ThrowsNotRegistered ==
  \A c \in Calls :
    (Resolved(c)
       /\ LastRegistered(HistorySeen(c), NormalForm(arg[c].name)) = NoHandle)
      => /\ status[c] = "threw"
         /\ err[c][1].name = "DataSourceNotRegisteredError"
         /\ Contains(err[c][1].message, NormalForm(arg[c].name))
         /\ count[c].init = 0

\* C10 (step part): the step that throws it changes neither the registry nor
\* any handle.
C10_LeavesRegistry ==
  \A c \in Calls :
    (pc[c] = "idle" /\ pc'[c] = "done" /\ err'[c] # <<>>
       /\ err'[c][1].name = "DataSourceNotRegisteredError")
      => /\ dataSources' = dataSources
         /\ isInitialized' = isInitialized
         /\ initCalls' = initCalls

\* C10: resolving an unregistered name fails with a Not-Registered error whose
\* message contains the normalized name; no handle is initialized and the
\* registry is left unchanged.
C10_NotRegistered == [](C10_ThrowsNotRegistered) /\ [][C10_LeavesRegistry]_vars

\* C10 witness: another name is registered, and a resolve of a blank name threw
\* the error naming "default".
C10_Witness ==
  \E c \in Calls :
    /\ kind[c] = "get" /\ status[c] = "threw"
    /\ err[c][1].name = "DataSourceNotRegisteredError"
    /\ arg[c].name = Str(<<" ">>)
    /\ Contains(err[c][1].message, DEFAULT_DATA_SOURCE_NAME)
    /\ seen[c] > 0 /\ DOMAIN dataSources # {}


Validated(c) == kind[c] \in Kinds /\ pc[c] # "idle"

\* the call got a reply of the store on the single-value path
ScalarReply(c) ==
  /\ Validated(c) /\ status[c] = "returned"
  /\ arg[c].each # True /\ ~batch[c]
  /\ reply[c].t # "none"

RowFound(c) == reply[c].t \notin {"null", "undefined"}

\* C3: in scalar mode ExistsInValidator.validate returns the boolean true when
\* the store returns a row and the boolean false when it returns none.
C3_ExistsScalar ==
  \A c \in Calls :
    (ScalarReply(c) /\ kind[c] = "ExistsIn") => ret[c] = BoolRet(RowFound(c))

\* C4: in scalar mode UniqueInValidator.validate returns false when the store
\* returns a row and true when it returns none.
C4_UniqueScalar ==
  \A c \in Calls :
    (ScalarReply(c) /\ kind[c] = "UniqueIn") => ret[c] = BoolRet(~RowFound(c))

\* the call got a verdict of valueExists in each mode
BatchVerdict(c) ==
  /\ Validated(c) /\ status[c] = "returned"
  /\ arg[c].each = True
  /\ verdict[c].t = "array"

\* C5: in each mode ExistsInValidator.validate returns the allExists flag of
\* the verdict.
C5_ExistsBatch ==
  \A c \in Calls :
    (BatchVerdict(c) /\ kind[c] = "ExistsIn")
      => ret[c] = BoolRet(verdict[c].v[2])

\* C6: in each mode UniqueInValidator.validate returns the negation of the
\* anyExists flag of the verdict.
C6_UniqueBatch ==
  \A c \in Calls :
    (BatchVerdict(c) /\ kind[c] = "UniqueIn")
      => ret[c] = BoolRet(~verdict[c].v[1])

\* C7: for a null or undefined value ExistsIn returns false and UniqueIn true
\* before anything else: no configuration error even for invalid constraints,
\* no connection resolved or initialized, no accessor, builder or query.
C7_NullShortCircuit ==
  \A c \in Calls :
    (Validated(c) /\ arg[c].value.t \in {"null", "undefined"})
      => /\ pc[c] = "done"
         /\ status[c] = "returned"
         /\ ret[c] = BoolRet(kind[c] = "UniqueIn")
         /\ count[c] = NoCount
         /\ ds[c] = NoHandle

\* C7 witness: validate(null) with a missing entity and column returned false.
C7_Witness ==
  \E c \in Calls :
    /\ kind[c] = "ExistsIn" /\ status[c] = "returned"
    /\ arg[c].value = Null
    /\ arg[c].entity = Undefined /\ arg[c].column = Undefined
    /\ ret[c] = BoolRet(FALSE)

\* the candidates of a batch as the specification words them: the pieces
\* between commas, without surrounding white space, the empty ones dropped,
\* as a set
Blank(p) == \A i \in 1..Len(p) : p[i] \in WhiteSpace

Pieces(s) ==
  { SubSeq(s, i, j) : <<i, j>> \in
      { ij \in (1..(Len(s) + 1)) \X (0..Len(s)) :
          /\ ij[2] >= ij[1] - 1
          /\ (ij[1] = 1 \/ s[ij[1] - 1] = ",")
          /\ (ij[2] = Len(s) \/ s[ij[2] + 1] = ",")
          /\ \A k \in ij[1]..ij[2] : s[k] # "," } }

Candidates(s) == { NormalForm(Str(p)) : p \in { q \in Pieces(s) : ~Blank(q) } }

\* the count a reply of the store carries: 0 without a cnt field
HasCount(r) ==
  \/ r.t \in {"null", "undefined"}
  \/ ~r.hasCnt
  \/ \E k \in 0..9 : r.cnt.s = <<DigitChars[k + 1]>>

ReportedCount(r) ==
  IF r.t \in {"null", "undefined"} \/ ~r.hasCnt THEN 0
  ELSE CHOOSE k \in 0..9 : r.cnt.s = <<DigitChars[k + 1]>>

\* C8: in each mode the value is split on commas, trimmed, emptied of blanks and
\* deduplicated; with found the count of the reply (0 without one) the verdict
\* is (found > 0, found = number of deduplicated candidates).
C8_BatchVerdict ==
  \A c \in Calls :
    (Validated(c) /\ arg[c].each = True /\ batch[c] /\ reply[c].t # "none"
       /\ HasCount(reply[c]))
      => /\ {uniq[c][i] : i \in 1..Len(uniq[c])} = Candidates(arg[c].value.s)
         /\ Len(uniq[c]) = Cardinality(Candidates(arg[c].value.s))
         /\ verdict[c] =
              TupleRet(ReportedCount(reply[c]) > 0,
                       ReportedCount(reply[c])
                         = Cardinality(Candidates(arg[c].value.s)))

\* C8 witness: "a,b,a" with a count of "1" gave (true, false).
C8_Witness ==
  \E c \in Calls :
    /\ Validated(c) /\ arg[c].each = True
    /\ arg[c].value = Str(<<"a", ",", "b", ",", "a">>)
    /\ reply[c] = CountRow(Str(<<"1">>))
    /\ Len(uniq[c]) = 2
    /\ verdict[c] = TupleRet(TRUE, FALSE)

\* C9: in each mode a value whose pieces are all empty gives the verdict
\* (false, false) without a query builder and without a query.
C9_EmptyBatch ==
  \A c \in Calls :
    (Validated(c) /\ arg[c].each = True /\ arg[c].value.t = "string"
       /\ Candidates(arg[c].value.s) = {})
      => /\ count[c].builder = 0
         /\ count[c].query = 0
         /\ pc[c] # "awaitQuery"
         /\ reply[c] = NoReply
         /\ status[c] = "returned" => verdict[c] = TupleRet(FALSE, FALSE)

\* C9 witness: the value "," went through valueExists to (false, false).
C9_Witness ==
  \E c \in Calls :
    /\ Validated(c) /\ arg[c].each = True
    /\ arg[c].value = Str(<<",">>)
    /\ status[c] = "returned"
    /\ count[c].repo = 1 /\ count[c].builder = 0 /\ count[c].query = 0
    /\ verdict[c] = TupleRet(FALSE, FALSE)

\* ---- registration: accepted and rejected arguments ----

\* the handles that are objects with a callable getRepository
UsableHandle(h) == h \in {"h1", "h2"}
\* the names registration accepts: strings, null and undefined
UsableName(n) == n.t \in {"string", "null", "undefined"}

\* C11: a registration call fails with the Invalid-Handle error exactly when
\* the handle is null or has no callable getRepository, or the name is
\* neither a string nor null/undefined; with any other arguments it succeeds
\* and stores the handle under the normalized name, leaving other names alone.
C11_RegisterStep ==
  \A h \in HandleArgs, n \in RawNames :
    (registerDataSourceForValidation(h, n)
       /\ UNCHANGED <<isInitialized, initCalls, registerDecoratorCalls>>
       /\ UNCHANGED callVars)
      => IF UsableHandle(h) /\ UsableName(n)
           THEN /\ regErr' = <<>>
                /\ dataSources'[NormalForm(n)] = h
                /\ \A k \in DOMAIN dataSources' \ {NormalForm(n)} :
                     k \in DOMAIN dataSources /\ dataSources'[k] = dataSources[k]
                /\ DOMAIN dataSources \subseteq DOMAIN dataSources'
           ELSE /\ Len(regErr') = 1
                /\ regErr'[1].name = "DataSourceInvalidError"
                /\ dataSources' = dataSources
C11_RegisterValidates == [][C11_RegisterStep]_vars

\* C11 witness: after one successful registration a second call was refused.
C11_Witness ==
  /\ Len(log) >= 1 /\ log[1].op = "register"
  /\ Len(regErr) = 1 /\ regErr[1].name = "DataSourceInvalidError"
  /\ MapGet(dataSources, log[1].name) = log[1].handle

\* ---- resolving a handle that is not ready ----

\* call c is a resolve that awaited initialize(), and the promise resolved
InitializeResolved(c) ==
  kind[c] = "get" /\ initResult[c].o \in {"ready", "noop"}

\* C12: when initialize() of a registered handle resolves and the handle still
\* reports not ready, the resolve fails with DataSourceInitializationError
\* whose message names the normalized name, and returns nothing; no resolve
\* returns a handle that is not ready.
C12_StillNotReady ==
  \A c \in Calls :
    /\ (InitializeResolved(c) /\ ~isInitialized[ds[c]])
         => /\ status[c] = "threw"
            /\ ret[c] = NoRet
            /\ err[c][1].name = "DataSourceInitializationError"
            /\ Contains(err[c][1].message, NormalForm(arg[c].name))
    /\ (kind[c] = "get" /\ status[c] = "returned")
         => \A h \in Handles : ret[c] = HandleRet(h) => isInitialized[h]

\* C12 witness: the handle registered under "a" stayed not ready after its
\* initialize() resolved, and the resolve of " a " threw the error naming "a".
C12_Witness ==
  \E c \in Calls :
    /\ kind[c] = "get" /\ initResult[c].o = "noop"
    /\ arg[c].name = Str(<<" ", "a", " ">>)
    /\ ds[c] \in Handles /\ ~isInitialized[ds[c]] /\ initCalls[ds[c]] = 1
    /\ status[c] = "threw"
    /\ err[c] = <<DataSourceInitializationError(<<"a">>)>>

\* call c is a resolve whose awaited initialize() rejected
InitializeRejected(c) == kind[c] = "get" /\ initResult[c].o = "reject"

\* C13 (state part): when initialize() rejects, the resolve rejects with the
\* error initialize() rejected with, the same object: not wrapped, not
\* converted into the initialization error.
C13_SameRejection ==
  \A c \in Calls :
    InitializeRejected(c)
      => /\ status[c] = "threw"
         /\ ret[c] = NoRet
         /\ err[c] = <<initResult[c].thrown[1].error>>
         /\ err[c][1].name # "DataSourceInitializationError"

\* C13 (step part): the step in which the rejection arrives leaves the registry
\* as it is, the entry of the handle included.
C13_KeepsEntry ==
  \A c \in Calls :
    (kind[c] = "get" /\ initResult[c].o = "none" /\ initResult'[c].o = "reject")
      => /\ dataSources' = dataSources
         /\ isInitialized' = isInitialized

\* C13: a rejection of initialize() is the rejection of the resolve, unchanged,
\* and the registry entry stays.
C13_RejectionPropagates == [](C13_SameRejection) /\ [][C13_KeepsEntry]_vars

\* C13 witness: a resolve threw the "down" error its initialize() rejected
\* with, and the handle is still registered under the name.
C13_Witness ==
  \E c \in Calls :
    /\ InitializeRejected(c)
    /\ err[c] = <<PlainError(<<"d","o","w","n">>)>>
    /\ HasNormalForm(arg[c].name)
    /\ MapGet(dataSources, NormalForm(arg[c].name)) = ds[c]
    /\ ds[c] \in Handles

\* the step in which resolve call c returns
Returns(c) == kind'[c] = "get" /\ status[c] # "returned" /\ status'[c] = "returned"

\* C14: the handle a resolve returns reports ready at the moment of the return;
\* a handle that was not ready is returned only by the step after the await,
\* after one initialize() of this call, and it has become ready.
C14_ReturnStep ==
  \A c \in Calls :
    Returns(c)
      => \E h \in Handles :
           /\ ret'[c] = HandleRet(h)
           /\ isInitialized'[h]
           /\ ~isInitialized[h]
                => /\ pc[c] = "awaitInit"
                   /\ count[c].init = 1
                   /\ initCalls[h] >= 1
                   /\ initResult'[c].o = "ready"
           /\ pc[c] = "idle" => (isInitialized[h] /\ initCalls' = initCalls)
C14_ReturnsReady == [][C14_ReturnStep]_vars

\* C14 witness: a resolve found its handle not ready, awaited initialize()
\* once, and returned the handle, now ready.
C14_Witness ==
  \E c \in Calls :
    /\ kind[c] = "get" /\ status[c] = "returned"
    /\ initResult[c].o = "ready" /\ count[c].init = 1
    /\ ret[c] = HandleRet(ds[c])
    /\ isInitialized[ds[c]] /\ initCalls[ds[c]] = 1

\* ---- registration and initialization ----

\* C15: registering a handle that is not initialized invokes its initialize()
\* as part of the registration: a registered handle either reports ready or
\* has had its initialize() invoked.
C15_RegisterInitializes ==
  \A i \in 1..Len(log) :
    log[i].op = "register"
      => (isInitialized[log[i].handle] \/ initCalls[log[i].handle] >= 1)

\* ---- the catch block of valueExists ----

\* the errors of the package that stand for a registry or configuration fault
NeverReclassified ==
  {"DataSourceNotRegisteredError", "DataSourceInitializationError",
   "DataSourceInvalidError", "ValidationConfigurationError"}

\* valueExists of call c caught something
Caught(c) == Validated(c) /\ caught[c] # <<>>
TypedCaught(c) ==
  Caught(c) /\ caught[c][1].isError /\ caught[c][1].error.name \in NeverReclassified
\* ... something untyped, thrown after the accessor was requested of the store
UntypedStoreFailure(c) == Caught(c) /\ ~TypedCaught(c) /\ count[c].repo >= 1

\* the message of what was caught: of a value that is no error, its string form
MessageOf(thrown) == IF thrown.isError THEN thrown.error.message ELSE thrown.value.s

\* the messages among those thrown that contain "no metadata" or
\* "doesn't exist" in some spelling of upper and lower case
SchemaMessages ==
  { <<"N","o"," ","M","e","t","a","d","a","t","a"," ","f","o","r"," ","D">>,
    <<"t"," ","D","O","E","S","N","'","T"," ","e","x","i","s","t">>,
    <<"n","o"," ","m","e","t","a","d","a","t","a">> }

\* C16: a Not-Registered, Initialization, Invalid-Handle or Configuration error
\* raised while valueExists resolves the connection or runs the query is the
\* error of the validate call, the same error with the same message, never a
\* Query-Execution error.
C16_TypedPassThrough ==
  \A c \in Calls :
    TypedCaught(c)
      => /\ status[c] = "threw"
         /\ err[c] = <<caught[c][1].error>>
         /\ err[c][1].name # "ValidationQueryError"

\* C16 witness: the store threw the Invalid-Handle error from its query builder
\* and validate threw that error.
C16_Witness ==
  \E c \in Calls :
    /\ Validated(c) /\ count[c].builder = 1
    /\ caught[c] = <<ThrowError(DataSourceInvalidError)>>
    /\ status[c] = "threw" /\ err[c] = <<DataSourceInvalidError>>

\* C17: an untyped failure of the store whose message contains "no metadata"
\* or "doesn't exist", in any case, comes out of valueExists as
\* ValidationConfigurationError, never as a Query-Execution error.
C17_SchemaMismatch ==
  \A c \in Calls :
    (UntypedStoreFailure(c) /\ MessageOf(caught[c][1]) \in SchemaMessages)
      => /\ status[c] = "threw"
         /\ err[c][1].name = "ValidationConfigurationError"
         /\ err[c][1].name # "ValidationQueryError"

\* C17 witness: the query rejected with Error "t DOESN'T exist" and validate
\* threw the configuration error.
C17_Witness ==
  \E c \in Calls :
    /\ Validated(c) /\ count[c].query = 1
    /\ caught[c] = <<ThrowError(PlainError(
                        <<"t"," ","D","O","E","S","N","'","T"," ","e","x","i","s","t">>))>>
    /\ status[c] = "threw"
    /\ err[c][1].name = "ValidationConfigurationError"

Missing(x) == x.t \in {"undefined", "null"} \/ x = Str(<<>>)

\* call c validates a value that is there with an entity or a column missing
Misconfigured(c) ==
  /\ Validated(c)
  /\ arg[c].value.t \notin {"null", "undefined"}
  /\ Missing(arg[c].entity) \/ Missing(arg[c].column)

\* C19: validate of a non-null value with a falsy entity or column throws the
\* configuration error in its first step, and that call resolves no
\* connection, invokes no initialize(), and asks for no accessor, query builder
\* or query.
C19_ConfigurationFirst ==
  \A c \in Calls :
    Misconfigured(c)
      => /\ pc[c] = "done"
         /\ status[c] = "threw"
         /\ err[c][1].name = "ValidationConfigurationError"
         /\ count[c] = NoCount
         /\ ds[c] = NoHandle
         /\ initResult[c] = NotAwaited
         /\ caught[c] = <<>>
         /\ \A h \in Handles : initCalls[h] = 0

\* C19 witness: with a handle registered as default and not ready, validate of
\* "a" with an entity and no column threw the configuration error.
C19_Witness ==
  \E c \in Calls :
    /\ Validated(c) /\ status[c] = "threw"
    /\ arg[c].value = Str(<<"a">>) /\ arg[c].name = Undefined
    /\ arg[c].entity = Str(<<"t">>) /\ arg[c].column = Undefined
    /\ err[c][1].name = "ValidationConfigurationError"
    /\ MapGet(dataSources, DEFAULT_DATA_SOURCE_NAME) \in Handles
    /\ ~isInitialized[MapGet(dataSources, DEFAULT_DATA_SOURCE_NAME)]
    /\ count[c] = NoCount

\* ---- the connection a validation uses ----

\* call c asked a handle for its accessor
AskedStore(c) == Validated(c) /\ count[c].repo >= 1

\* C20: the handle a validation asks for its accessor and its query is the one
\* registered, when the validation looked it up, under the normalized
\* connection name of its constraints ("default" for an unset, empty or
\* whitespace-only name), whatever is registered under other names.
C20_OwnConnection ==
  \A c \in Calls :
    AskedStore(c)
      => /\ ds[c] \in Handles
         /\ ds[c] = LastRegistered(HistorySeen(c), NormalForm(arg[c].name))
         /\ dsName[c] = NormalForm(arg[c].name)

\* C20 witness: two handles are registered, under "a" and under "default", and
\* a validation naming " a " ran its query on the handle of "a".
C20_Witness ==
  \E c \in Calls :
    /\ Validated(c) /\ count[c].query = 1
    /\ arg[c].name = Str(<<" ", "a", " ">>)
    /\ seen[c] = 2
    /\ DEFAULT_DATA_SOURCE_NAME \in DOMAIN dataSources
    /\ <<"a">> \in DOMAIN dataSources
    /\ dataSources[<<"a">>] # dataSources[DEFAULT_DATA_SOURCE_NAME]
    /\ ds[c] = dataSources[<<"a">>]

\* ---- no retries ----

\* C21: one resolve invokes initialize() at most once and one validate runs at
\* most one query, in each mode too; when initialize() rejects or the query
\* fails, the call ends there with the failure as its error: no second
\* initialize(), no accessor or query after the rejection, no second query.
C21_NoRetries ==
  \A c \in Calls :
    /\ count[c].init <= 1 /\ count[c].builder <= 1 /\ count[c].query <= 1
    /\ \A h \in Handles :
         /\ initCalls[h] <= 1
         /\ initCalls[h] = 1 => (ds[c] = h /\ count[c].init = 1)
    /\ initResult[c].o = "reject"
         => /\ pc[c] = "done" /\ status[c] = "threw" /\ err[c] # <<>>
            /\ count[c].repo = 0 /\ count[c].query = 0
    /\ (count[c].query = 1 /\ caught[c] # <<>>)
         => /\ pc[c] = "done" /\ status[c] = "threw" /\ err[c] # <<>>
            /\ reply[c] = NoReply

\* C21 witness: a validation initialized its handle, its one query was
\* rejected, and the call threw.
C21_Witness ==
  \E c \in Calls :
    /\ Validated(c) /\ count[c].init = 1 /\ initCalls[ds[c]] = 1
    /\ count[c].query = 1 /\ caught[c] # <<>>
    /\ status[c] = "threw" /\ err[c][1].name = "ValidationQueryError"

\* ---- decorators ----

\* the each property of the options as the claim words it: undefined when the
\* options are absent or have none
EachOf(o) == IF o = Undefined THEN Undefined ELSE o.each

\* the constraint the claim expects of a decorator with the given validator
ExpectedConstraint(validator, e, col, n, o, object, propertyName, registered) ==
  /\ Len(registered) = 1
  /\ registered[1].target = object.constructor
  /\ registered[1].propertyName = propertyName
  /\ Len(registered[1].constraints) = 4
  /\ registered[1].constraints[1] = e
  /\ registered[1].constraints[2] = col
  /\ registered[1].constraints[3] = n
  /\ registered[1].constraints[4] = EachOf(o)
  /\ registered[1].validator = validator

\* C22: applying the decorator of ExistsIn(entityOrTable, column,
\* connectionName, options) or of UniqueIn(...) to a property registers
\* exactly one constraint: target the class of the property, the property
\* name, the tuple [entityOrTable, column, connectionName, options?.each] in
\* this order with undefined for what is absent, and the validator
\* ExistsInValidator or UniqueInValidator.
C22_DecoratorStep ==
  \A e \in DecoratorEntities, col \in DecoratorColumns, n \in DecoratorNames,
     o \in DecoratorOptions, object \in Prototypes, prop \in PropertyNames :
    LET added == SubSeq(registerDecoratorCalls', Len(registerDecoratorCalls) + 1,
                        Len(registerDecoratorCalls'))
    IN /\ DecorateExistsIn(e, col, n, o, object, prop)
            => /\ ExpectedConstraint("ExistsInValidator", e, col, n, o, object,
                                     prop, added)
               /\ SubSeq(registerDecoratorCalls', 1, Len(registerDecoratorCalls))
                    = registerDecoratorCalls
       /\ DecorateUniqueIn(e, col, n, o, object, prop)
            => /\ ExpectedConstraint("UniqueInValidator", e, col, n, o, object,
                                     prop, added)
               /\ SubSeq(registerDecoratorCalls', 1, Len(registerDecoratorCalls))
                    = registerDecoratorCalls
C22_DecoratorRegisters == [][C22_DecoratorStep]_vars

\* C22 witness: UniqueIn(D, 'id', 'a', {each: true}) was put on
\* TestDto.authorId.
C22_Witness ==
  /\ Len(registerDecoratorCalls) = 1
  /\ registerDecoratorCalls[1].validator = "UniqueInValidator"
  /\ registerDecoratorCalls[1].target = "TestDto"
  /\ registerDecoratorCalls[1].constraints
       = <<Cls(<<"D">>), Str(<<"i", "d">>), Str(<<"a">>), True>>

\* ---- concurrent resolves ----

\* the resolves that invoked initialize() on handle h
Initializers(h) == {c \in Slots : kind[c] = "get" /\ ds[c] = h /\ count[c].init = 1}

\* C23: two resolves interleaved at the await each invoke initialize() on the
\* handle they found not ready (the handle sees as many calls as there are
\* such resolves), and once its initialize() has settled a resolve is done: it
\* returned its handle, ready, or it threw the initialization error or the
\* rejection.
C23_EachInitializes ==
  /\ \A h \in Handles : initCalls[h] = Cardinality(Initializers(h))
  /\ \A c \in Slots :
       (kind[c] = "get" /\ initResult[c].o # "none")
         => /\ pc[c] = "done"
            /\ initResult[c].o = "ready"
                 => (status[c] = "returned" /\ ret[c] = HandleRet(ds[c]))
            /\ initResult[c].o = "reject"
                 => (status[c] = "threw" /\ err[c] = <<initResult[c].thrown[1].error>>)
            /\ initResult[c].o = "noop"
                 => \/ status[c] = "returned" /\ ret[c] = HandleRet(ds[c])
                    \/ /\ status[c] = "threw"
                       /\ err[c] = <<DataSourceInitializationError(dsName[c])>>
            /\ status[c] = "returned" => isInitialized[ds[c]]

\* C23 witness: initialize() was invoked twice on one handle, by two resolves
\* that both returned it.
C23_Witness ==
  \E h \in Handles :
    /\ initCalls[h] = 2
    /\ \A c \in Slots :
         /\ kind[c] = "get" /\ ds[c] = h /\ count[c].init = 1
         /\ status[c] = "returned" /\ ret[c] = HandleRet(h)

\* resolve c found a handle not ready and awaited its initialize()
Awaited(c) == kind[c] = "get" /\ count[c].init = 1

\* C24: a resolve that awaits initialize() of the handle it found keeps to that
\* handle whatever is registered or cleared during the await: it returns that
\* handle or throws the initialization error of its name (or the rejection),
\* never another handle and never the Not-Registered error.
C24_KeepsItsHandle ==
  \A c \in Slots :
    Awaited(c)
      => /\ ds[c] \in Handles
         /\ ds[c] = LastRegistered(HistorySeen(c), NormalForm(arg[c].name))
         /\ status[c] = "returned"
              => (ret[c] = HandleRet(ds[c]) /\ isInitialized[ds[c]])
         /\ status[c] = "threw"
              => /\ err[c][1].name # "DataSourceNotRegisteredError"
                 /\ \/ err[c] = <<DataSourceInitializationError(NormalForm(arg[c].name))>>
                    \/ /\ initResult[c].o = "reject"
                       /\ err[c] = <<initResult[c].thrown[1].error>>

\* C24 witness: while a resolve is suspended at the await, the other handle has
\* been registered under its name.
C24_Witness ==
  \E c \in Slots :
    /\ Awaited(c) /\ pc[c] = "awaitInit"
    /\ Len(log) > seen[c]
    /\ MapGet(dataSources, dsName[c]) \in Handles \ {ds[c]}

\* ---- a failed registration ----

\* the step is a register call that throws
RegisterThrows == regErr = <<>> /\ regErr' # <<>>

\* C25: a register call that fails with the Invalid-Handle error leaves the
\* registry as it was: the same names with the same handles, so every name
\* resolves as before the call.
C25_FailedStep ==
  RegisterThrows
    => /\ regErr'[1].name = "DataSourceInvalidError"
       /\ DOMAIN dataSources' = DOMAIN dataSources
       /\ \A k \in DOMAIN dataSources : dataSources'[k] = dataSources[k]
       /\ isInitialized' = isInitialized
       /\ log' = log
C25_FailedRegisterKeeps == [][C25_FailedStep]_vars

\* C25 witness: two handles are registered under two names, and a third
\* register call has thrown.
C25_Witness ==
  /\ Len(regErr) = 1
  /\ Len(log) = 2 /\ log[1].op = "register" /\ log[2].op = "register"
  /\ log[1].name # log[2].name
  /\ Cardinality(DOMAIN dataSources) = 2

\* ---- the two flags of a verdict ----

\* C26: every verdict valueExists returns, for a single value or a list and
\* for every reply of the store (a row, none, any count, a count above the
\* number of values, no count), has anyExists whenever it has allExists; for a
\* single value the two flags are equal. (false, true) is never returned.
C26_AllImpliesAny ==
  \A c \in Calls :
    (Validated(c) /\ verdict[c] # NoRet)
      => /\ verdict[c].t = "array" /\ Len(verdict[c].v) = 2
         /\ verdict[c].v[2] => verdict[c].v[1]
         /\ verdict[c] # TupleRet(FALSE, TRUE)
         /\ ~batch[c] => verdict[c].v[1] = verdict[c].v[2]

\* C26 witness: a list of two values got the count 3 from the store, and the
\* verdict is (true, false).
C26_Witness ==
  \E c \in Calls :
    /\ Validated(c) /\ batch[c] /\ Len(uniq[c]) = 2
    /\ reply[c] = CountRow(Num(<<"3">>))
    /\ verdict[c] = TupleRet(TRUE, FALSE)

\* ---- what a validate call ends with ----

\* the typed errors of the package that a validator may throw
FiveTypedErrors ==
  {"ValidationConfigurationError", "DataSourceNotRegisteredError",
   "DataSourceInitializationError", "DataSourceInvalidError",
   "ValidationQueryError"}

\* a validate call that threw, threw one of the five
ThrowsTypedOnly ==
  \A c \in Calls :
    (Validated(c) /\ status[c] = "threw")
      => (Len(err[c]) = 1 /\ err[c][1].name \in FiveTypedErrors)

\* a validate call that returned, returned a boolean
ReturnsBooleanOnly ==
  \A c \in Calls :
    (Validated(c) /\ status[c] = "returned") => ret[c].t = "boolean"

\* C27: for any value, constraints and behaviour of the handle, a validate
\* call either returns a boolean or throws one of the five typed errors.
C27_BooleanOrTyped == ReturnsBooleanOnly /\ ThrowsTypedOnly

\* ---- a rejected initialize() inside valueExists ----

\* validation c awaited an initialize() that rejected with something untyped
UntypedInitRejection(c) ==
  /\ Validated(c) /\ initResult[c].o = "reject"
  /\ ~(initResult[c].thrown[1].isError
         /\ initResult[c].thrown[1].error.name \in NeverReclassified)

\* C28: an untyped rejection of initialize() during the resolve of valueExists
\* does not reach the caller of validate as it is: the call throws the
\* configuration error when the message matches a schema-mismatch pattern,
\* otherwise the Query-Execution error with the rejection as its cause; no
\* accessor is asked for.
C28_InitRejectionTranslated ==
  \A c \in Calls :
    UntypedInitRejection(c)
      => LET t == initResult[c].thrown[1]
         IN /\ status[c] = "threw"
            /\ count[c].repo = 0
            /\ t.isError => err[c] # <<t.error>>
            /\ IF MessageOf(t) \in SchemaMessages
                 THEN err[c][1].name = "ValidationConfigurationError"
                 ELSE /\ err[c][1].name = "ValidationQueryError"
                      /\ Len(err[c][1].cause) = 1
                      /\ err[c][1].cause[1].message = MessageOf(t)
                      /\ t.isError => err[c][1].cause[1] = t.error

\* C28 witness: initialize() rejected with Error "boom" and validate threw the
\* Query-Execution error with that Error as cause.
C28_Witness ==
  \E c \in Calls :
    /\ Validated(c) /\ initResult[c].o = "reject"
    /\ initResult[c].thrown = <<ThrowError(PlainError(<<"b","o","o","m">>))>>
    /\ status[c] = "threw"
    /\ err[c][1].name = "ValidationQueryError"
    /\ err[c][1].cause = <<PlainError(<<"b","o","o","m">>)>>

\* ---- the connection comes before the values ----

\* validation c is in each mode with a well-formed configuration and a value
\* without any candidate
EmptyList(c) ==
  /\ Validated(c) /\ arg[c].each = True /\ arg[c].value.t = "string"
  /\ Candidates(arg[c].value.s) = {}
  /\ ~Missing(arg[c].entity) /\ ~Missing(arg[c].column)

\* C29: in each mode with an empty list of candidates valueExists resolves the
\* connection first: without a handle under the name the call throws the
\* Not-Registered error and returns no verdict; a handle found not ready has
\* its initialize() invoked; (false, false) is returned only after a ready
\* handle was asked for its accessor.
C29_ResolvesFirst ==
  \A c \in Calls :
    EmptyList(c)
      => LET h == LastRegistered(HistorySeen(c), NormalForm(arg[c].name))
         IN /\ count[c].resolve = 1
            /\ ds[c] = h
            /\ h = NoHandle
                 => /\ status[c] = "threw" /\ verdict[c] = NoRet
                    /\ err[c][1].name = "DataSourceNotRegisteredError"
            /\ (h # NoHandle /\ ~isInitialized[h])
                 => (count[c].init = 1 /\ initCalls[h] = 1 /\ verdict[c] = NoRet)
            /\ verdict[c] # NoRet
                 => (h # NoHandle /\ isInitialized[h] /\ count[c].repo = 1)

\* C29 witness: nothing is registered and a validation of "," in each mode
\* threw the Not-Registered error.
C29_Witness ==
  \E c \in Calls :
    /\ EmptyList(c) /\ arg[c].value = Str(<<",">>)
    /\ ds[c] = NoHandle /\ count[c].resolve = 1
    /\ status[c] = "threw"
    /\ err[c][1].name = "DataSourceNotRegisteredError"

\* ---- validations and the registry ----

\* the step is one of validation c
ValidationStep(c) == pc'[c] # pc[c] /\ kind'[c] \in Kinds

\* C30: no step of a validate call, of either validator, whether the call
\* returns or throws, changes the registry: the names and their handles stay;
\* only the ready flag of the handle of the call may change, to ready.
C30_ValidationStep ==
  \A c \in Calls :
    ValidationStep(c)
      => /\ DOMAIN dataSources' = DOMAIN dataSources
         /\ \A k \in DOMAIN dataSources : dataSources'[k] = dataSources[k]
         /\ log' = log
         /\ \A h \in Handles :
              isInitialized'[h] # isInitialized[h]
                => (h = ds[c] /\ isInitialized'[h])
C30_RegistryUntouched == [][C30_ValidationStep]_vars

\* C30 witness: with two handles registered, a validation awaited
\* initialize() of its handle, was rejected and threw.
C30_Witness ==
  \E c \in Calls :
    /\ Validated(c) /\ initResult[c].o = "reject" /\ status[c] = "threw"
    /\ Cardinality(DOMAIN dataSources) = 2
    /\ MapGet(dataSources, dsName[c]) = ds[c]

====
